---- MODULE Spec2Model ----
(***************************************************************************)
(* trivia-bot (src/src/main.rs): the team registry, the host-role slot and *)
(* the slash-command handler, as a state machine.                          *)
(*                                                                         *)
(* The handler runs on a multi-threaded runtime, one task per event.  A    *)
(* step of the model is what one task does between two points where other  *)
(* tasks can observe or change shared state: from the arrival of the event *)
(* to its first .await, and from the completion of an .await to the next   *)
(* one.  Every section that holds a Mutex lies inside one such step (no    *)
(* guard lives across an .await), so a step is atomic for the registry.    *)
(*                                                                         *)
(* Option<T> is modelled as a set with at most one element: {} is None and *)
(* {x} is Some(x).  Ids (channels, roles, users, guilds) are numbers.      *)
(***************************************************************************)
EXTENDS Integers, Sequences, FiniteSets, Bags, TLC

\* ------------------------------------------------------------------ bounds

\* Number of interaction events handled in one run.
MaxEvents == 3
\* Number of handling tasks alive at the same time.
MaxTasks == 2
\* Width of the score in the model; it stands for the 64 bits of i64.
ScoreBits == 4

\* ----------------------------------------------------- program constants

PERMISSION_DENIED ==
    "You do not have permission to use this command and it has been reported to the local authorities. Spend your last moments repenting."

\* The name the ready handler looks for among a guild's roles.
HostName == "Host"

\* Range of Team.score (i64), at the model's width.
I64Max == 2 ^ (ScoreBits - 1) - 1
I64Min == 0 - 2 ^ (ScoreBits - 1)

\* ------------------------------------------------------ the platform side

\* Channels of the guild.
Channels == {1, 2}
\* Users that invoke commands.
Actors == {1, 2}
\* Roles of the platform and their display names.  Roles 1 and 2 carry the
\* same name "Host"; role 3 differs from it in case only.
RoleName ==
    (1 :> "Host") @@ (2 :> "Host") @@ (3 :> "host") @@
    (4 :> "Red Team") @@ (5 :> "Blue Team")
RoleIds == DOMAIN RoleName
\* Roles a host hands to "team create".
TeamRoles == {4, 5}
\* Who holds which role: user 1 holds role 1, user 2 holds role 2.
RoleHolders == (1 :> {1}) @@ (2 :> {2}) @@ (3 :> {}) @@ (4 :> {}) @@ (5 :> {})
\* Amounts passed to "team score adjust".
Amounts == {0 - 2, 5}
\* Role sets of the guilds a ready event can name.
Guilds == {{2, 5}, {1, 2}, {3, 4}}

\* ------------------------------------------------------------- invocations

\* ApplicationCommandInteractionDataOptionValue
Val(kind, v) == [kind |-> kind, v |-> v]
\* ApplicationCommandInteractionDataOption: name, resolved value, children
Opt(name, resolved, options) ==
    [name |-> name, resolved |-> resolved, options |-> options]
\* ApplicationCommandInteractionData: command name and options
Data(name, options) == [name |-> name, options |-> options]
\* Interaction: kind, data, member (the invoking user), channel_id, guild_id
Interaction(kind, data, member, channel_id, guild_id) ==
    [kind |-> kind, data |-> data, member |-> member,
     channel_id |-> channel_id, guild_id |-> guild_id]

\* options.get(i) of a Vec: Some(element) or None (i counts from 0).
Get(options, i) == IF i < Len(options) THEN {options[i + 1]} ELSE {}

\* Invocations that "team create" accepts: a channel and a role.
CreateOptions(c, g) ==
    <<Opt("channel", {Val("Channel", c)}, <<>>), Opt("role", {Val("Role", g)}, <<>>)>>
\* Red, green and blue of "team recolor".
RecolorOptions(r, g, b) ==
    <<Opt("red", {Val("Integer", r)}, <<>>), Opt("green", {Val("Integer", g)}, <<>>),
      Opt("blue", {Val("Integer", b)}, <<>>)>>

\* A slash command of the guild: the invoking member and the origin channel.
Command(data, actor, channel) ==
    Interaction("ApplicationCommand", {data}, {actor}, {channel}, {1})

\* Interactions that follow the schema registered in ready().  Where the
\* handler reads neither the member nor the origin channel, one of each is
\* enough.
PingInteractions == {Command(Data("ping", <<>>), 1, 1)}
IdInteractions == {Command(Data("id", <<Opt("id", {Val("User", 2)}, <<>>)>>), 1, 1)}
RenameInteractions ==
    {Command(Data("team", <<Opt("rename", {},
                <<Opt("name", {Val("String", "Stars")}, <<>>)>>)>>), 1, c) : c \in Channels}
RecolorInteractions ==
    {Command(Data("team", <<Opt("recolor", {}, RecolorOptions(255, 0, 300))>>), 1, c) :
        c \in Channels}
CreateInteractions ==
    {Command(Data("team", <<Opt("create", {}, CreateOptions(c, g))>>), a, 1) :
        c \in Channels, g \in TeamRoles, a \in Actors}
ListInteractions ==
    {Command(Data("team", <<Opt("score", {}, <<Opt("list", {}, <<>>)>>)>>), 1, 1)}
AdjustInteractions ==
    {Command(Data("team", <<Opt("score", {}, <<Opt("adjust", {},
                <<Opt("amount", {Val("Integer", d)}, <<>>)>>)>>)>>), a, c) :
        d \in Amounts, a \in Actors, c \in Channels}

\* Command names no arm of the handler matches, at each level.
UnknownInteractions ==
    {Command(Data("quiz", <<>>), 1, 1),
     Command(Data("Ping", <<>>), 1, 1),
     Command(Data("team", <<Opt("delete", {}, <<>>)>>), 1, 1),
     Command(Data("team", <<Opt("score", {}, <<Opt("reset", {}, <<>>)>>)>>), 1, 1)}

\* Interactions that follow the schema: slash commands of the guild, and
\* interactions of another kind (no command data).
ValidInteractions ==
    PingInteractions \cup IdInteractions \cup RenameInteractions
    \cup RecolorInteractions \cup CreateInteractions \cup ListInteractions
    \cup AdjustInteractions \cup UnknownInteractions
    \cup {Interaction("MessageComponent", {}, {}, {}, {})}

\* Interactions that break the schema, which the handler meets with
\* expect(): a "team score adjust" that carries no amount.
MalformedInteractions ==
    {Command(Data("team", <<Opt("score", {}, <<Opt("adjust", {}, <<>>)>>)>>), 1, c) :
        c \in Channels}

\* Interactions the handler is called with.
Interactions == ValidInteractions \cup MalformedInteractions

\* ---------------------------------------------------------------- registry

\* struct Team { role: Role, score: i64 }; of Role the id and the name.
Team(role, score) == [role |-> role, score |-> score]
Role(id) == [id |-> id, name |-> RoleName[id]]

\* Teams::new
Teams_new == <<>>

\* Variant of Teams::create_team: self.teams.insert(channel, Team { role, score: 0 }),
\* which replaces the team a channel already has.
Teams_create_team_insert(ts, channel, role) ==
    [c \in DOMAIN ts \cup {channel} |-> IF c = channel THEN Team(role, 0) ELSE ts[c]]

\* Teams::create_team: self.teams.entry(channel).or_insert(Team { role, score: 0 })
Teams_create_team(ts, channel, role) ==
    IF channel \in DOMAIN ts THEN ts ELSE ts @@ (channel :> Team(role, 0))

\* Teams::get_team: self.teams.get(channel).cloned()
Teams_get_team(ts, channel) ==
    IF channel \in DOMAIN ts THEN {ts[channel]} ELSE {}

\* i64 addition `s + d`: the sum when it fits; otherwise the build decides,
\* the wrapped sum (no overflow checks) or a panic (overflow checks).
WrapI64(n) == ((n - I64Min) % (2 ^ ScoreBits)) + I64Min
AddI64(s, d) ==
    IF s + d >= I64Min /\ s + d <= I64Max
    THEN {[sum |-> s + d, overflow |-> FALSE]}
    ELSE {[sum |-> WrapI64(s + d), overflow |-> FALSE], [sum |-> s, overflow |-> TRUE]}

\* ----------------------------------------------------------------- handler

\* The one element of Some(x).
Unwrap(opt) == CHOOSE x \in opt : TRUE

\* The orders in which a loop over a HashMap can visit the elements of `set`.
Orders(set) ==
    {o \in [1..Cardinality(set) -> set] : \A i, j \in DOMAIN o : i # j => o[i] # o[j]}

\* Vec<String>::join(sep)
RECURSIVE Join(_, _)
Join(list, sep) ==
    IF Len(list) = 0 THEN ""
    ELSE IF Len(list) = 1 THEN list[1]
    ELSE list[1] \o sep \o Join(Tail(list), sep)

\* `n as u8`
AsU8(n) == n % 256

\* What a step of a handling task comes to: where the task goes next
\* ("respond" with a content, "has_role" or "edit" awaiting the platform,
\* "panicked", or "returned" without a response), the host role it read,
\* and the poison flags of the two mutexes after the step.
Outcome(to, content, host, panic, hp, tp) ==
    [to |-> to, content |-> content, host |-> host, panic |-> panic,
     host_poisoned |-> hp, teams_poisoned |-> tp]
Reply(text, hp, tp) == Outcome("respond", {text}, {}, "", hp, tp)
Panicked(message, hp, tp) == Outcome("panicked", {}, {}, message, hp, tp)

\* "id": the referenced user's tag and id.
IdCommand(data, hp, tp) ==
    LET option == Get(data.options, 0) IN
    IF option = {} THEN Panicked("Expected user option", hp, tp)
    ELSE IF Unwrap(option).resolved = {} THEN Panicked("Expected user object", hp, tp)
    ELSE LET value == Unwrap(Unwrap(option).resolved) IN
         IF value.kind = "User"
         THEN Reply("user" \o ToString(value.v) \o "'s id is " \o ToString(value.v), hp, tp)
         ELSE Reply("Please provide a valid user", hp, tp)

\* "team rename", up to team.role.edit(..).await
RenameCommand(i, suboption, ts, hp, tp) ==
    LET option == Get(suboption.options, 0) IN
    IF option = {} THEN Panicked("Expected new team name", hp, tp)
    ELSE IF Unwrap(option).resolved = {} THEN Panicked("Expected string", hp, tp)
    ELSE IF Unwrap(Unwrap(option).resolved).kind = "String" /\ i.channel_id # {}
         THEN IF tp THEN Panicked("PoisonError", hp, tp)     \* self.teams.lock().unwrap()
              ELSE IF Teams_get_team(ts, Unwrap(i.channel_id)) # {}
                   THEN Outcome("edit", {}, {}, "", hp, tp)
                   ELSE Reply("Failed to rename team, could not find team", hp, tp)
         ELSE Reply("Failed to rename team, invalid argument or channel id", hp, tp)

\* The integer components "team recolor" collects from its options; "panic"
\* when an option has no resolved value.
RECURSIVE Components(_)
Components(options) ==
    IF Len(options) = 0 THEN [panic |-> FALSE, list |-> <<>>]
    ELSE IF Head(options).resolved = {} THEN [panic |-> TRUE, list |-> <<>>]
    ELSE LET rest == Components(Tail(options))
             value == Unwrap(Head(options).resolved) IN
         IF rest.panic THEN rest
         ELSE IF value.kind = "Integer"
              THEN [panic |-> FALSE, list |-> <<value.v>> \o rest.list]
              ELSE rest

\* "team recolor", up to team.role.edit(..).await
RecolorCommand(i, suboption, ts, hp, tp) ==
    LET components == Components(suboption.options) IN
    IF components.panic THEN Panicked("Expected integer", hp, tp)
    ELSE IF Len(components.list) < 3 THEN Panicked("index out of bounds", hp, tp)  \* components[2]
    ELSE IF i.channel_id # {}
         THEN IF tp THEN Panicked("PoisonError", hp, tp)     \* self.teams.lock().unwrap()
              ELSE IF Teams_get_team(ts, Unwrap(i.channel_id)) # {}
                   THEN Outcome("edit", {}, {}, "", hp, tp)
                   ELSE Reply("Failed to rename team, could not find team", hp, tp)
         ELSE Reply("Failed to rename team, invalid argument or channel id", hp, tp)

\* Variant of HostCheck: an absent host role falls back to role 1
\* (unwrap_or) instead of panicking.
HostCheck_default(i, host, hp, tp) ==
    IF hp THEN Panicked("PoisonError", hp, tp)
    ELSE IF i.member = {} THEN Reply("No member for interaction", hp, tp)
    ELSE IF i.guild_id = {} THEN Panicked("Expected guild id", hp, tp)
    ELSE Outcome("has_role", {}, IF host = {} THEN {1} ELSE host, "", hp, tp)

\* `self.host_role.lock().unwrap().unwrap()` and the match on the member, up
\* to has_role(..).await: the start of "team create" and "team score adjust".
\* The guard lives to the end of the statement, so the panic of the second
\* unwrap (on None) unwinds through it and poisons the mutex.
HostCheck(i, host, hp, tp) ==
    IF hp THEN Panicked("PoisonError", hp, tp)          \* lock().unwrap(), mutex poisoned
    ELSE IF host = {} THEN Panicked("called Option::unwrap() on a None value", TRUE, tp)
    ELSE IF i.member = {} THEN Reply("No member for interaction", hp, tp)
    ELSE IF i.guild_id = {} THEN Panicked("Expected guild id", hp, tp)
    ELSE Outcome("has_role", {}, host, "", hp, tp)

\* "team score list": one "<role name>: <score>" per team, in the map's order.
ListCommand(ts, order, hp, tp) ==
    IF tp THEN Panicked("PoisonError", hp, tp)     \* self.teams.lock().unwrap()
    ELSE LET score_list ==
                 [k \in DOMAIN order |->
                     ts[order[k]].role.name \o ": " \o ToString(ts[order[k]].score)] IN
         IF Len(score_list) = 0
         THEN Reply("No teams created", hp, tp)
         ELSE Reply(Join(score_list, ", "), hp, tp)

\* Variant of ScoreCommand: every sub-subcommand other than "list" goes
\* through the check of the host role.
ScoreCommand_gated(i, suboption, ts, order, host, hp, tp) ==
    LET option == Get(suboption.options, 0) IN
    IF option = {} THEN Panicked("Expected sub-sub option", hp, tp)
    ELSE LET score_options == Unwrap(option) IN
         CASE score_options.name = "list" -> ListCommand(ts, order, hp, tp)
           [] OTHER -> HostCheck(i, host, hp, tp)

\* "team score ..."
ScoreCommand(i, suboption, ts, order, host, hp, tp) ==
    LET option == Get(suboption.options, 0) IN
    IF option = {} THEN Panicked("Expected sub-sub option", hp, tp)
    ELSE LET score_options == Unwrap(option) IN
         CASE score_options.name = "list" -> ListCommand(ts, order, hp, tp)
           [] score_options.name = "adjust" -> HostCheck(i, host, hp, tp)
           [] OTHER -> Reply("Invalid team->score suboption", hp, tp)

\* "team ..."
TeamCommand(i, data, ts, order, host, hp, tp) ==
    LET option == Get(data.options, 0) IN
    IF option = {} THEN Panicked("Expected sub option", hp, tp)
    ELSE LET suboption == Unwrap(option) IN
         CASE suboption.name = "rename" -> RenameCommand(i, suboption, ts, hp, tp)
           [] suboption.name = "recolor" -> RecolorCommand(i, suboption, ts, hp, tp)
           [] suboption.name = "create" -> HostCheck(i, host, hp, tp)
           [] suboption.name = "score" -> ScoreCommand(i, suboption, ts, order, host, hp, tp)
           [] OTHER -> Reply("Invalid team suboption", hp, tp)

\* Variant of Dispatch: a command name no arm matches falls into the answer
\* of the "team" arm.
Dispatch_team_default(i, ts, order, host, hp, tp) ==
    IF i.kind # "ApplicationCommand" \/ i.data = {}
    THEN Outcome("returned", {}, {}, "", hp, tp)
    ELSE LET data == Unwrap(i.data) IN
         CASE data.name = "ping" -> Reply("pong", hp, tp)
           [] data.name = "id" -> IdCommand(data, hp, tp)
           [] data.name = "team" -> TeamCommand(i, data, ts, order, host, hp, tp)
           [] OTHER -> Reply("Invalid team suboption", hp, tp)

\* interaction_create from the arrival of the event to its first .await (or
\* to the content of its response): the match on the command name.
Dispatch(i, ts, order, host, hp, tp) ==
    IF i.kind # "ApplicationCommand" \/ i.data = {}
    THEN Outcome("returned", {}, {}, "", hp, tp)
    ELSE LET data == Unwrap(i.data) IN
         CASE data.name = "ping" -> Reply("pong", hp, tp)
           [] data.name = "id" -> IdCommand(data, hp, tp)
           [] data.name = "team" -> TeamCommand(i, data, ts, order, host, hp, tp)
           [] OTHER -> Reply("Invalid command", hp, tp)

\* What a step does to the registry along with its outcome.
Effect(out, ts) == [out |-> out, teams |-> ts]

\* The membership lookup has_role(http, guild, role): whether the user
\* holds the role on the platform.
HasRole(actor, role) == actor \in RoleHolders[role]

\* Variant of Handler::create_team: the team is created in a new registry
\* that replaces the shared one.
Handler_create_team_fresh(ts, tp, channel, role) ==
    IF tp THEN [panic |-> TRUE, teams |-> ts]
    ELSE [panic |-> FALSE, teams |-> Teams_create_team(Teams_new, channel, role)]

\* Handler::create_team: lock the registry and create the team.
Handler_create_team(ts, tp, channel, role) ==
    IF tp THEN [panic |-> TRUE, teams |-> ts]           \* self.teams.lock().unwrap()
    ELSE [panic |-> FALSE, teams |-> Teams_create_team(ts, channel, role)]

\* "team create" after has_role returned true.
CreateApply(suboption, ts, hp, tp) ==
    LET channel_opt == Get(suboption.options, 0)
        role_opt == Get(suboption.options, 1) IN
    IF channel_opt = {} THEN Effect(Panicked("Expected channel id", hp, tp), ts)
    ELSE IF Unwrap(channel_opt).resolved = {}
         THEN Effect(Panicked("Expected Channel", hp, tp), ts)
    ELSE IF role_opt = {} THEN Effect(Panicked("Expected role id", hp, tp), ts)
    ELSE IF Unwrap(role_opt).resolved = {}
         THEN Effect(Panicked("Expected Role", hp, tp), ts)
    ELSE LET channel_arg == Unwrap(Unwrap(channel_opt).resolved)
             role_arg == Unwrap(Unwrap(role_opt).resolved) IN
         IF channel_arg.kind = "Channel" /\ role_arg.kind = "Role"
         THEN LET created == Handler_create_team(ts, tp, channel_arg.v, Role(role_arg.v)) IN
              IF created.panic THEN Effect(Panicked("PoisonError", hp, tp), ts)
              ELSE Effect(Reply("Created new team", hp, tp), created.teams)
         ELSE Effect(Reply("Failed to create team, unknown channel or role", hp, tp), ts)

\* "team score adjust" after has_role returned true: the whole match runs
\* under the registry's guard, so a panic inside it poisons the mutex.
AdjustApply(i, score_options, ts, hp, tp) ==
    IF tp THEN {Effect(Panicked("PoisonError", hp, tp), ts)}       \* self.teams.lock().unwrap()
    ELSE IF i.channel_id = {} THEN {Effect(Panicked("Expected channel id", hp, TRUE), ts)}
    ELSE LET channel == Unwrap(i.channel_id)
             option == Get(score_options.options, 0) IN
         IF channel \notin DOMAIN ts
         THEN {Effect(Reply("Missing team, could not adjust", hp, tp), ts)}
         ELSE IF option = {}
              THEN {Effect(Panicked("Expected adjustment amount", hp, TRUE), ts)}
         ELSE IF Unwrap(option).resolved = {}
              THEN {Effect(Panicked("Expected integer", hp, TRUE), ts)}
         ELSE LET adjust_arg == Unwrap(Unwrap(option).resolved) IN
              IF adjust_arg.kind = "Integer"
              THEN {IF r.overflow
                    THEN Effect(Panicked("attempt to add with overflow", hp, TRUE), ts)
                    ELSE Effect(Reply("Team score adjusted by " \o ToString(adjust_arg.v)
                                      \o ", score is now " \o ToString(r.sum) \o " in total",
                                      hp, tp),
                                [ts EXCEPT ![channel].score = r.sum])
                    : r \in AddI64(ts[channel].score, adjust_arg.v)}
              ELSE {Effect(Reply("Adjustment wrong type, could not adjust", hp, tp), ts)}

\* The subcommand and the sub-subcommand of an invocation that got past
\* HostCheck (both exist there).
Suboption(i) == Unwrap(Get(Unwrap(i.data).options, 0))
ScoreOptions(i) == Unwrap(Get(Suboption(i).options, 0))
IsCreate(i) == Suboption(i).name = "create"

\* Variant of AfterHasRole: the bool that has_role returned is not looked at.
AfterHasRole_unchecked(i, result, ts, hp, tp) ==
    CASE result = "err" -> {Effect(Panicked("Expected bool", hp, tp), ts)}
      [] OTHER ->
           IF IsCreate(i)
           THEN {CreateApply(Suboption(i), ts, hp, tp)}
           ELSE AdjustApply(i, ScoreOptions(i), ts, hp, tp)

\* interaction_create from the completion of has_role(..).await on: `result`
\* is the lookup's Result<bool>, "err" when the platform call failed.
AfterHasRole(i, result, ts, hp, tp) ==
    CASE result = "err" -> {Effect(Panicked("Expected bool", hp, tp), ts)}
      [] result = "false" -> {Effect(Reply(PERMISSION_DENIED, hp, tp), ts)}
      [] OTHER ->
           IF IsCreate(i)
           THEN {CreateApply(Suboption(i), ts, hp, tp)}
           ELSE AdjustApply(i, ScoreOptions(i), ts, hp, tp)

\* Variant of HasRoleResults: the lookup is made for every role named
\* "Host", not for the role the task read.
HasRoleResults_any_host(i, host) ==
    {"err", IF \E r \in RoleIds : RoleName[r] = HostName /\ HasRole(Unwrap(i.member), r)
            THEN "true" ELSE "false"}

\* What has_role can return for the invoking member and the host role read.
HasRoleResults(i, host) ==
    {"err", IF HasRole(Unwrap(i.member), Unwrap(host)) THEN "true" ELSE "false"}

\* interaction_create from the completion of team.role.edit(..).await on.
AfterEdit(i, ok, hp, tp) ==
    IF ~ok THEN Reply("Failed to rename team: Http error", hp, tp)
    ELSE IF Suboption(i).name = "rename"
         THEN Reply("Team name is now "
                    \o Unwrap(Unwrap(Get(Suboption(i).options, 0)).resolved).v, hp, tp)
         ELSE LET c == Components(Suboption(i).options).list IN
              Reply("Team color is now (" \o ToString(AsU8(c[1])) \o ", "
                    \o ToString(AsU8(c[2])) \o ", " \o ToString(AsU8(c[3])) \o ")", hp, tp)

\* ------------------------------------------------------------------- state

VARIABLES
    teams,              \* Handler.teams: the HashMap<ChannelId, Team> in the mutex
    teams_poisoned,     \* whether the mutex of Handler.teams is poisoned
    host_role,          \* Handler.host_role: the Option<RoleId> in the mutex
    host_role_poisoned, \* whether the mutex of Handler.host_role is poisoned
    tasks,              \* the handling tasks alive, a bag of Task records (tasks
                        \* have no identity: two may be in the same local state)
    panic,              \* the message of the panic that ended the last step, ""
                        \* when the last step did not panic
    ready_stores,       \* roles named "Host" the ready handler has yet to store
    events,             \* interaction events delivered so far
    owed                \* history: per channel, the amounts of the adjust invocations
                        \* whose membership check returned true while a team was bound

vars == <<teams, teams_poisoned, host_role, host_role_poisoned, tasks, panic,
          ready_stores, events, owed>>

\* The locals of a task of interaction_create that is suspended at an
\* .await: where it is ("has_role", "edit" or "respond"), the interaction
\* (while it is still read), the `host_role` it read and the `content` of
\* its response.
Task(pc, interaction, host, content) ==
    [pc |-> pc, inv |-> interaction, host |-> host, content |-> content]

\* Handler::new, no event received yet.
Init ==
    /\ teams = Teams_new
    /\ teams_poisoned = FALSE
    /\ host_role = {}
    /\ host_role_poisoned = FALSE
    /\ tasks = EmptyBag
    /\ panic = ""
    /\ ready_stores = <<>>
    /\ events = 0
    /\ owed = [c \in Channels |-> 0]

\* The amount an authorized "team score adjust" asks to add to the team of
\* its channel, 0 when the invocation asks for no addition.
Requested(i, result, c) ==
    IF /\ result = "true" /\ ~IsCreate(i) /\ i.channel_id = {c} /\ c \in DOMAIN teams
       /\ Get(ScoreOptions(i).options, 0) # {}
       /\ Unwrap(Get(ScoreOptions(i).options, 0)).resolved # {}
       /\ Unwrap(Unwrap(Get(ScoreOptions(i).options, 0)).resolved).kind = "Integer"
    THEN Unwrap(Unwrap(Get(ScoreOptions(i).options, 0)).resolved).v
    ELSE 0

\* The tasks left after the step of a task (`before`: the task as it was,
\* EmptyBag for a new one): the task awaits the platform or holds the
\* content of its response, or it is gone (its handler returned or panicked).
Moves(before, i, out) ==
    /\ tasks' = IF out.to \in {"has_role", "edit", "respond"}
                THEN (tasks (-) before)
                     (+) SetToBag({Task(out.to,
                                        IF out.to = "respond" THEN {} ELSE {i},
                                        out.host, out.content)})
                ELSE tasks (-) before
    /\ panic' = IF out.to = "panicked" THEN out.panic ELSE ""
    /\ host_role_poisoned' = out.host_poisoned
    /\ teams_poisoned' = out.teams_poisoned

\* ----------------------------------------------------------------- actions

\* An interaction event arrives and its task runs to its first .await.
\* `order` is the order in which "team score list" finds the map (no other
\* command iterates over it).
InteractionCreate ==
    /\ BagCardinality(tasks) < MaxTasks
    /\ events < MaxEvents
    /\ events' = events + 1
    /\ \E i \in Interactions :
         \E order \in IF i \in ListInteractions THEN Orders(DOMAIN teams) ELSE {<<>>} :
           Moves(EmptyBag, i, Dispatch(i, teams, order, host_role,
                                       host_role_poisoned, teams_poisoned))
    /\ UNCHANGED <<teams, host_role, ready_stores, owed>>

\* has_role(..).await completes and the task runs to the content of its response.
HasRoleReturn ==
    \E task \in BagToSet(tasks) :
      /\ task.pc = "has_role"
      /\ LET i == Unwrap(task.inv) IN
         \E result \in HasRoleResults(i, task.host) :
           /\ \E e \in AfterHasRole(i, result, teams, host_role_poisoned, teams_poisoned) :
                /\ Moves(SetToBag({task}), i, e.out)
                /\ teams' = e.teams
           /\ owed' = [c \in Channels |-> owed[c] + Requested(i, result, c)]
      /\ UNCHANGED <<host_role, ready_stores, events>>

\* team.role.edit(..).await completes.
EditReturn ==
    \E task \in BagToSet(tasks), ok \in BOOLEAN :
      /\ task.pc = "edit"
      /\ Moves(SetToBag({task}), Unwrap(task.inv),
               AfterEdit(Unwrap(task.inv), ok, host_role_poisoned, teams_poisoned))
      /\ UNCHANGED <<teams, host_role, ready_stores, events, owed>>

\* create_interaction_response(..).await completes: the content was
\* delivered, or the failure is printed; the handler returns either way, in
\* the same state.
Respond ==
    \E task \in BagToSet(tasks) :
      /\ task.pc = "respond"
      /\ tasks' = tasks (-) SetToBag({task})
      /\ panic' = ""
      /\ UNCHANGED <<teams, teams_poisoned, host_role, host_role_poisoned,
                     ready_stores, events, owed>>

\* The stores into host_role that the visit of one guild makes, in order:
\* ctx.cache.guild(..) finds the guild or not, and the loop over guild.roles
\* meets the roles named "Host" in the order of the map.
HostStores(guild, fetched) ==
    IF fetched THEN Orders({r \in guild : RoleName[r] = HostName}) ELSE {<<>>}

\* The loop over guild.roles is at a role named "Host", the first of
\* `stores`: lock host_role and store the role's id.  lock().unwrap() on a
\* poisoned mutex panics, which ends the handler.
StoreHost(stores) ==
    IF stores = <<>>
    THEN /\ ready_stores' = <<>>
         /\ panic' = ""
         /\ UNCHANGED host_role
    ELSE IF host_role_poisoned
         THEN /\ ready_stores' = <<>>
              /\ panic' = "PoisonError"
              /\ UNCHANGED host_role
         ELSE /\ host_role' = {Head(stores)}
              /\ ready_stores' = Tail(stores)
              /\ panic' = ""

\* The ready handler visits a guild of ready.guilds: it registers the
\* commands (set_application_commands(..).await), fetches the guild from the
\* cache (ctx.cache.guild(..).await) and runs to its first store into
\* host_role.  A ready event that names several guilds is the sequence of
\* these visits.
ReadyGuild ==
    /\ ready_stores = <<>>
    /\ \E guild \in Guilds, fetched \in BOOLEAN :
         \E stores \in HostStores(guild, fetched) : StoreHost(stores)
    /\ UNCHANGED <<teams, teams_poisoned, host_role_poisoned, tasks, events, owed>>

\* The loop over guild.roles goes on to the next role named "Host".
ReadyRole ==
    /\ ready_stores # <<>>
    /\ StoreHost(ready_stores)
    /\ UNCHANGED <<teams, teams_poisoned, host_role_poisoned, tasks, events, owed>>

Next ==
    \/ InteractionCreate
    \/ HasRoleReturn
    \/ EditReturn
    \/ Respond
    \/ ReadyGuild
    \/ ReadyRole

Spec == Init /\ [][Next]_vars

\* ------------------------------------------- arguments that break the schema

\* Invocations with a required argument missing or of another type than the
\* schema registered in ready() names (the platform enforces the schema, the
\* handler does not rely on it: it reads each argument with get(), expect()
\* and a match on the type), and one without its origin channel.
ArgumentInteractions ==
    {Command(Data("id", <<>>), 1, 1),
     Command(Data("id", <<Opt("id", {}, <<>>)>>), 1, 1),
     Command(Data("id", <<Opt("id", {Val("String", "nobody")}, <<>>)>>), 1, 1),
     Command(Data("team", <<>>), 1, 1),
     Command(Data("team", <<Opt("rename", {}, <<>>)>>), 1, 1),
     Command(Data("team", <<Opt("rename", {},
                <<Opt("name", {Val("Integer", 7)}, <<>>)>>)>>), 1, 1),
     Command(Data("team", <<Opt("recolor", {},
                <<Opt("red", {Val("Integer", 255)}, <<>>),
                  Opt("green", {Val("Integer", 0)}, <<>>)>>)>>), 1, 1),
     Command(Data("team", <<Opt("score", {}, <<>>)>>), 1, 1),
     Command(Data("team", <<Opt("create", {}, <<>>)>>), 1, 1),
     Command(Data("team", <<Opt("create", {},
                <<Opt("channel", {Val("Role", 4)}, <<>>),
                  Opt("role", {Val("Role", 4)}, <<>>)>>)>>), 1, 1),
     Command(Data("team", <<Opt("score", {}, <<Opt("adjust", {},
                <<Opt("amount", {Val("String", "five")}, <<>>)>>)>>)>>), 1, 1),
     Interaction("ApplicationCommand",
                 {Data("team", <<Opt("score", {}, <<Opt("adjust", {},
                     <<Opt("amount", {Val("Integer", 5)}, <<>>)>>)>>)>>)},
                 {1}, {}, {1})}
    \cup MalformedInteractions

\* Every interaction the handler may be called with.
AnyInteractions == ValidInteractions \cup ArgumentInteractions

\* InteractionCreate, called with any of them.
InteractionCreateAny ==
    /\ BagCardinality(tasks) < MaxTasks
    /\ events < MaxEvents
    /\ events' = events + 1
    /\ \E i \in AnyInteractions :
         \E order \in IF i \in ListInteractions THEN Orders(DOMAIN teams) ELSE {<<>>} :
           Moves(EmptyBag, i, Dispatch(i, teams, order, host_role,
                                       host_role_poisoned, teams_poisoned))
    /\ UNCHANGED <<teams, host_role, ready_stores, owed>>

AnyNext ==
    \/ InteractionCreateAny
    \/ HasRoleReturn
    \/ EditReturn
    \/ Respond
    \/ ReadyGuild
    \/ ReadyRole

AnySpec == Init /\ [][AnyNext]_vars

\* --------------------------------------------------- locks and suspensions

\* The same handlers at the grain of their locks.  A task is the path its
\* handler takes through the code, as the sequence of its lock operations
\* and .await points: "lock X" is X.lock() (it waits while another task
\* holds the guard), "unlock X" is the drop of the guard at the end of its
\* scope (or by the unwinding of a panic), "await ..." is a suspension
\* point.  A path that ends without "await respond" is a handler that
\* panicked or returned without a response.
Locks == {"teams", "host_role"}
Awaits ==
    {"await has_role", "await edit", "await respond", "await commands", "await cache"}
LockOf(op) == IF op \in {"lock teams", "unlock teams"} THEN "teams" ELSE "host_role"

\* "ping", "id" and the unknown names: no lock.
PlainPaths == {<<"await respond">>}

\* Variant of RenamePaths: the guard is bound to a local that lives to the
\* end of the arm, across team.role.edit(..).await.
RenamePaths_guard_across_edit ==
    {<<"lock teams", "await edit", "unlock teams", "await respond">>,
     <<"lock teams", "unlock teams", "await respond">>,
     <<"lock teams", "unlock teams">>}

\* "team rename": `let teams = self.teams.lock().unwrap().get_team(..);` the
\* guard is a temporary of the let statement; then the team is found
\* (edit(..).await), or not, or lock().unwrap() panicked on a poisoned mutex.
RenamePaths ==
    {<<"lock teams", "unlock teams", "await edit", "await respond">>,
     <<"lock teams", "unlock teams", "await respond">>,
     <<"lock teams", "unlock teams">>}

\* "team recolor": the same statements as "team rename".
RecolorPaths ==
    {<<"lock teams", "unlock teams", "await edit", "await respond">>,
     <<"lock teams", "unlock teams", "await respond">>,
     <<"lock teams", "unlock teams">>}

\* "team score list": `let teams = &self.teams.lock().unwrap();` the guard
\* lives to the end of the arm, which has no .await.
ListPaths ==
    {<<"lock teams", "unlock teams", "await respond">>,
     <<"lock teams", "unlock teams">>}

\* "team create" and "team score adjust": the guard of host_role is a
\* temporary of `let host_role = ..;`.  Then: no member (a response); a
\* panic (unwrap of None, poisoned mutex, no guild id); has_role(..).await
\* and a panic (Err, or a missing argument of "create"); the denial (or a
\* mistyped argument of "create"); the registry locked in the true arm
\* (Handler::create_team; the scrutinee of the match in "adjust") and the
\* response, or a panic under or at that lock.
PrivilegedPaths ==
    {<<"lock host_role", "unlock host_role", "await respond">>,
     <<"lock host_role", "unlock host_role">>,
     <<"lock host_role", "unlock host_role", "await has_role">>,
     <<"lock host_role", "unlock host_role", "await has_role", "await respond">>,
     <<"lock host_role", "unlock host_role", "await has_role",
       "lock teams", "unlock teams", "await respond">>,
     <<"lock host_role", "unlock host_role", "await has_role",
       "lock teams", "unlock teams">>}

\* ready, for one guild: set_application_commands(..).await,
\* ctx.cache.guild(..).await, then one store under the guard of host_role
\* for each role named "Host" (none, one or two here).
ReadyPaths ==
    {<<"await commands", "await cache">>,
     <<"await commands", "await cache", "lock host_role", "unlock host_role">>,
     <<"await commands", "await cache", "lock host_role", "unlock host_role",
       "lock host_role", "unlock host_role">>}

Paths ==
    PlainPaths \cup RenamePaths \cup RecolorPaths \cup ListPaths
    \cup PrivilegedPaths \cup ReadyPaths

\* A task at this grain: its path, the operation it is at, the guards it holds.
LockTask(path, at, held) == [path |-> path, at |-> at, held |-> held]
Op(task) == task.path[task.at]
Holders(lock) == {task \in BagToSet(tasks) : lock \in task.held}

\* The task has done its operation: it is at the next one, or its handler is
\* over (what it still holds is dropped with its locals).
LockAdvance(task, held) ==
    /\ tasks' = (tasks (-) SetToBag({task}))
                (+) IF task.at = Len(task.path) THEN EmptyBag
                    ELSE SetToBag({LockTask(task.path, task.at + 1, held)})
    /\ UNCHANGED <<teams, teams_poisoned, host_role, host_role_poisoned, panic,
                   ready_stores, events, owed>>

\* An event arrives and a task starts on one of the paths.
LockArrive ==
    /\ BagCardinality(tasks) < MaxTasks
    /\ events < MaxEvents
    /\ events' = events + 1
    /\ \E path \in Paths : tasks' = tasks (+) SetToBag({LockTask(path, 1, {})})
    /\ UNCHANGED <<teams, teams_poisoned, host_role, host_role_poisoned, panic,
                   ready_stores, owed>>

\* X.lock() returns: no other task holds the guard of X.
LockAcquire ==
    \E task \in BagToSet(tasks) :
      /\ Op(task) \in {"lock teams", "lock host_role"}
      /\ Holders(LockOf(Op(task))) = {}
      /\ LockAdvance(task, task.held \cup {LockOf(Op(task))})

\* The guard of X goes out of scope.
LockRelease ==
    \E task \in BagToSet(tasks) :
      /\ Op(task) \in {"unlock teams", "unlock host_role"}
      /\ LockAdvance(task, task.held \ {LockOf(Op(task))})

\* The platform call a task is suspended in completes.
LockResume ==
    \E task \in BagToSet(tasks) :
      /\ Op(task) \in Awaits
      /\ LockAdvance(task, task.held)

LockNext ==
    \/ LockArrive
    \/ LockAcquire
    \/ LockRelease
    \/ LockResume

LockSpec == Init /\ [][LockNext]_vars

\* The same under fair scheduling: a task that can take a step is not left
\* out for ever (the runtime polls every ready task, a guard that is asked
\* for is handed over once it is free, every platform call returns).
LockFairSpec ==
    /\ LockSpec
    /\ WF_vars(LockAcquire)
    /\ WF_vars(LockRelease)
    /\ WF_vars(LockResume)

\* ------------------------------------------------------- reading the steps

\* The task that takes the step, as it was before it.
Leaves(task) == CopiesIn(task, tasks') < CopiesIn(task, tasks)
\* The task a step leaves suspended, as it is after it.
Enters(task) == CopiesIn(task, tasks') > CopiesIn(task, tasks)
\* The step leaves its task with `text` to deliver as the response.
Responds(text) == Enters(Task("respond", {}, {}, {text}))
\* The step ends its task with no response.
NoResponse == \A task \in BagToSet(tasks') : ~Enters(task)
\* The step is the arrival of interaction i, handled to its first .await.
Handled(i) ==
    /\ events' = events + 1
    /\ Moves(EmptyBag, i, Dispatch(i, teams, <<>>, host_role,
                                   host_role_poisoned, teams_poisoned))
\* The step is the return of the membership lookup to `task`, a "team
\* create" or a "team score adjust" suspended in it.
LookupReturns(task) == Leaves(task) /\ task.pc = "has_role"
CreateTask(task) == IsCreate(Unwrap(task.inv))
\* The member that invoked the task's command holds the host role the task read.
IsHost(task) == HasRole(Unwrap(Unwrap(task.inv).member), Unwrap(task.host))
\* The lookup itself failed: has_role returned Err, expect() panicked.
LookupFailed == NoResponse /\ panic' = "Expected bool" /\ teams' = teams
\* The arguments of the task's command.
CreateChannel(task) == Unwrap(Suboption(Unwrap(task.inv)).options[1].resolved).v
CreateRole(task) == Unwrap(Suboption(Unwrap(task.inv)).options[2].resolved).v
HasAmount(task) == ScoreOptions(Unwrap(task.inv)).options # <<>>
AdjustAmount(task) == Unwrap(ScoreOptions(Unwrap(task.inv)).options[1].resolved).v
OriginChannel(task) == Unwrap(Unwrap(task.inv).channel_id)
\* The content "team score adjust" formats.
AdjustedText(d, total) ==
    "Team score adjusted by " \o ToString(d) \o ", score is now "
    \o ToString(total) \o " in total"

\* ------------------------------------------------------------------ claims

\* The privileged invocations: "team create" and "team score adjust".
Privileged == CreateInteractions \cup AdjustInteractions
\* The tasks of a state.
Alive == BagToSet(tasks)
CreatedText == "Created new team"
MissingText == "Missing team, could not adjust"
UnwrapNoneText == "called Option::unwrap() on a None value"

\* C1: no lost updates.  In every reachable state the score of each team is
\* the sum of the amounts of all the authorized "team score adjust"
\* invocations handled on its channel since the team was created (0 at
\* creation), however their steps interleave.
C1_NoLostUpdates ==
    \A c \in Channels :
      IF c \in DOMAIN teams THEN teams[c].score = owed[c] ELSE owed[c] = 0

\* C2: creation never overwrites.  The step that applies a "team create"
\* leaves every team the registry already holds as it was, role and score,
\* whichever channel and role the invocation names (the registry is a map, so
\* a channel has at most one team).
C2_CreateNeverOverwrites ==
    [][\A task \in Alive :
         LookupReturns(task) /\ CreateTask(task)
         => \A c \in DOMAIN teams : c \in DOMAIN teams' /\ teams'[c] = teams[c]]_vars

\* C2 witness: two "team create" have been applied (both confirmations are
\* to be delivered) and the registry holds one team, so the second named a
\* channel that had its team.
C2_Witness ==
    /\ CopiesIn(Task("respond", {}, {}, {CreatedText}), tasks) = 2
    /\ DOMAIN teams = {1}

\* C3: a non-host never mutates.  When the membership lookup of a "team
\* create" or a "team score adjust" returns for a member that does not hold
\* the host role the task read, the registry stays exactly as it was and the
\* response is PERMISSION_DENIED (or the lookup itself failed and there is no
\* response), whatever the arguments and whether the channel has a team.
C3_NonHostDenied ==
    [][\A task \in Alive :
         LookupReturns(task) /\ ~IsHost(task)
         => teams' = teams /\ (Responds(PERMISSION_DENIED) \/ LookupFailed)]_vars

\* C3 witness: a denial is to be delivered while channel 1 has a team.
C3_Witness ==
    /\ BagIn(Task("respond", {}, {}, {PERMISSION_DENIED}), tasks)
    /\ 1 \in DOMAIN teams

\* C4: with the host role absent, a "team create" or "team score adjust"
\* that arrives is answered, with a content other than PERMISSION_DENIED,
\* and its task goes on to deliver that response.
C4_NotConfiguredResponse ==
    [][\A i \in Privileged :
         host_role = {} /\ Handled(i)
         => \E task \in BagToSet(tasks') :
              /\ Enters(task) /\ task.pc = "respond"
              /\ task.content # {PERMISSION_DENIED}]_vars

\* C5: fail closed.  A "team create" or "team score adjust" that arrives
\* while the host role is absent changes nothing in the registry and leaves
\* no task behind that could; the registry changes only in the step of a
\* task that read a host role and waited for the membership lookup.
C5_FailClosed ==
    [][/\ \A i \in Privileged :
            host_role = {} /\ Handled(i) => teams' = teams /\ tasks' = tasks
       /\ teams' # teams
          => \E task \in Alive : LookupReturns(task) /\ task.host # {}]_vars

\* C5 witness: a privileged invocation has arrived with the host role absent
\* (its unwrap of None panicked); the registry is empty.
C5_Witness ==
    /\ panic = UnwrapNoneText
    /\ host_role = {}
    /\ teams = Teams_new

\* C6: when the membership lookup of a "team score adjust" returns for a
\* host, invoked in a channel that has no team, the response is "Missing
\* team, could not adjust" and the registry stays as it was (or the lookup
\* itself failed, with the registry as it was).
C6_AdjustMissingTeam ==
    [][\A task \in Alive :
         /\ LookupReturns(task) /\ ~CreateTask(task) /\ IsHost(task)
         /\ OriginChannel(task) \notin DOMAIN teams
         => teams' = teams /\ (Responds(MissingText) \/ LookupFailed)]_vars

\* C7: the registry starts empty; a channel gets a team only in the step
\* that applies a "team create" naming that channel, bound to the role it
\* names; a team is never removed and its role never changes.
C7_TeamsOnlyByCreate ==
    /\ teams = Teams_new
    /\ [][\A c \in Channels :
            /\ c \in DOMAIN teams
               => c \in DOMAIN teams' /\ teams'[c].role = teams[c].role
            /\ c \notin DOMAIN teams /\ c \in DOMAIN teams'
               => \E task \in Alive :
                    /\ LookupReturns(task) /\ CreateTask(task) /\ IsHost(task)
                    /\ CreateChannel(task) = c
                    /\ teams'[c].role = Role(CreateRole(task))]_vars

\* C7 witness: both channels have their teams, bound to different roles,
\* channel 1 with its score adjusted since.
C7_Witness ==
    /\ DOMAIN teams = {1, 2}
    /\ teams[1].role = Role(4) /\ teams[2].role = Role(5)
    /\ teams[1].score = 5

\* C8: when the membership lookup of a "team create" returns for a host and
\* the channel it names has no team, the registry gains exactly a Team for
\* that channel, bound to the role it names, with score 0, and the response
\* is "Created new team" (or the lookup itself failed).
C8_CreateBinds ==
    [][\A task \in Alive :
         /\ LookupReturns(task) /\ CreateTask(task) /\ IsHost(task)
         /\ CreateChannel(task) \notin DOMAIN teams
         => \/ /\ teams' = teams @@ (CreateChannel(task) :> Team(Role(CreateRole(task)), 0))
               /\ Responds(CreatedText)
            \/ LookupFailed]_vars

\* C9: when the membership lookup of a "team score adjust" with amount d
\* returns for a host, in a channel whose team has score s, the score becomes
\* s + d, nothing else in the registry changes, and the response reports d
\* and the running total s + d (or the lookup itself failed).
C9_AdjustAdds ==
    [][\A task \in Alive :
         /\ LookupReturns(task) /\ ~CreateTask(task) /\ IsHost(task)
         /\ HasAmount(task)
         /\ OriginChannel(task) \in DOMAIN teams
         => LET c == OriginChannel(task)
                d == AdjustAmount(task)
                s == teams[c].score IN
            \/ /\ teams' = [teams EXCEPT ![c].score = s + d]
               /\ Responds(AdjustedText(d, s + d))
            \/ LookupFailed]_vars

\* Invocations whose command name is none of "ping", "id" and "team".
UnknownCommands ==
    {i \in UnknownInteractions : Unwrap(i.data).name \notin {"ping", "id", "team"}}

\* C10 as stated: a command with an unknown name is answered with the literal
\* "Invalid command." and the registry stays as it was.
C10_InvalidCommandPeriod ==
    [][\A i \in UnknownCommands :
         Handled(i) => Responds("Invalid command.") /\ teams' = teams]_vars

\* C10: a command with an unknown name is answered with the literal
\* "Invalid command" (no period at the end) and the registry stays as it was.
C10_InvalidCommand ==
    [][\A i \in UnknownCommands :
         Handled(i) => Responds("Invalid command") /\ teams' = teams]_vars

\* C10 witness: the answer to an unknown command is to be delivered.
C10_Witness == BagIn(Task("respond", {}, {}, {"Invalid command"}), tasks)

\* C11: the guard of the registry is never held across a suspension point:
\* a task that is suspended in a platform call (the membership lookup, the
\* role edit, the delivery of the response, the calls of ready) does not
\* hold it, so a task that asks for the registry while all the others are
\* suspended gets it.
C11_NoGuardAcrossAwait ==
    /\ \A task \in BagToSet(tasks) : Op(task) \in Awaits => "teams" \notin task.held
    /\ (\A task \in BagToSet(tasks) : Op(task) \in Awaits \cup {"lock teams"})
       => Holders("teams") = {}

\* C11 witness: one task is suspended in the role edit, after its look at
\* the registry, while another task holds the guard of the registry.
C11_Witness ==
    \E suspended, holder \in BagToSet(tasks) :
      /\ Op(suspended) = "await edit"
      /\ "teams" \in holder.held

\* The step is the arrival of a "team score list", handled to its response;
\* `order` is the order in which the registry is iterated.
Listed(i, order) ==
    /\ events' = events + 1
    /\ Moves(EmptyBag, i, Dispatch(i, teams, order, host_role,
                                   host_role_poisoned, teams_poisoned))
\* The entry of a team in the list: "<team name>: <score>".
Entry(team) == team.role.name \o ": " \o ToString(team.score)
\* The lists of the registry `ts`: one entry per team, in some order.
Snapshots(ts) ==
    {Join([k \in DOMAIN order |-> Entry(ts[order[k]])], ", ") :
        order \in Orders(DOMAIN ts)}

\* C12: "team score list" returns a consistent snapshot.  Its response is
\* "No teams created" exactly when the registry is empty at the step that
\* lists it; otherwise it is one "<team name>: <score>" entry for each team
\* of the registry as it is at that step.
C12_ListSnapshot ==
    [][\A i \in ListInteractions : \A order \in Orders(DOMAIN teams) :
         Listed(i, order)
         => IF teams = Teams_new
            THEN Responds("No teams created")
            ELSE /\ ~Responds("No teams created")
                 /\ \E text \in Snapshots(teams) : Responds(text)]_vars

\* The step is the ready handler's visit of a guild whose roles named
\* "Host" are met in the order `stores`.
Visited(stores) ==
    /\ ready_stores = <<>>
    /\ StoreHost(stores)
    /\ UNCHANGED <<teams, teams_poisoned, host_role_poisoned, tasks, events, owed>>

\* C13: on a sync event the first group of the server named exactly "Host"
\* is the one recorded as the host role; a group with another name
\* ("host") is never recorded; a later group that is also named "Host"
\* does not replace the first.
C13_FirstHostRecorded ==
    [][/\ \A guild \in Guilds : \A stores \in HostStores(guild, TRUE) :
            stores # <<>> /\ Visited(stores) => host_role' = {stores[1]}
       /\ host_role' # host_role => \A r \in host_role' : RoleName[r] = HostName
       /\ ready_stores # <<>> => host_role' = host_role]_vars

\* What a sync of a guild alone resolves: the role named "Host" it meets, if any.
Resolved(stores) == {stores[k] : k \in DOMAIN stores}

\* C14: last sync wins.  After a sync event the host role is what that sync
\* resolved, whatever earlier syncs stored: the role named "Host" of its
\* guild, or none when it finds no such role (stated of the guilds with at
\* most one role named "Host", where the result is a single value).
C14_LastSyncWins ==
    [][\A guild \in Guilds, fetched \in BOOLEAN :
         \A stores \in HostStores(guild, fetched) :
           Len(stores) <= 1 /\ Visited(stores) => host_role' = Resolved(stores)]_vars

\* C15: an invocation with a required argument missing or of the wrong
\* type (or with no nested subcommand) is answered with a response string
\* and its task completes normally: no step of its task ends in a fault.
\* (Of invocations that arrive once the host role is set; what happens
\* before is C4.  A failed membership lookup is not about the arguments.)
C15_ArgumentsAnswered ==
    [][/\ \A i \in ArgumentInteractions :
            Handled(i) /\ host_role # {}
            => panic' = "" /\ \E task \in BagToSet(tasks') : Enters(task)
       /\ \A task \in Alive :
            LookupReturns(task) /\ Unwrap(task.inv) \in ArgumentInteractions
            => \/ LookupFailed
               \/ panic' = "" /\ \E next \in BagToSet(tasks') :
                                   Enters(next) /\ next.pc = "respond"]_vars

\* C16: scores change only through an authorized "team score adjust", in
\* the team of the channel it is invoked on.  Every other step leaves every
\* score as it is: the arrival of any invocation, the return of a role edit,
\* a create (a duplicate one included), a denied or failed adjust, an adjust
\* on another channel, a sync event, and the delivery of a response, whether
\* it succeeds or fails; a team enters the registry with score 0.
C16_ScoresOnlyByAdjust ==
    [][\A c \in Channels :
         /\ c \in DOMAIN teams
            => /\ c \in DOMAIN teams'
               /\ teams'[c].score # teams[c].score
                  => \E task \in Alive :
                       /\ LookupReturns(task)
                       /\ ~CreateTask(task)
                       /\ IsHost(task)
                       /\ OriginChannel(task) = c
                       /\ HasAmount(task)
         /\ c \in DOMAIN teams' \ DOMAIN teams => teams'[c].score = 0]_vars

\* C16 witness: the adjust by 5 of the host has changed the score of a team
\* and holds the content that reports it; the other team is as created.
C16_Witness ==
    /\ DOMAIN teams = Channels
    /\ \E c \in Channels :
         /\ teams[c].score = 5
         /\ \A other \in Channels \ {c} : teams[other].score = 0
    /\ Task("respond", {}, {}, {AdjustedText(5, 5)}) \in Alive

\* C17: failure isolation.  The abort of a task (a privileged command with
\* no host role set, a missing argument, a missing channel id) leaves the
\* registry and the host role usable: no later invocation and no later sync
\* event fails on them, that is, none ends in the panic of lock().unwrap()
\* on a mutex that an aborted task left poisoned.
C17_FailureIsolation == panic # "PoisonError"

\* C18: every insertion of a team and every change of a score is applied
\* by an invocation whose membership lookup returned true for its member
\* against the host role that this invocation read when it arrived.  A sync
\* event that changes the host role while the invocation is suspended in
\* the lookup does not alter its decision: it is denied exactly when its
\* member does not hold the role it read.
C18_DecidedOnRoleRead ==
    [][/\ teams' # teams
          => \E task \in Alive : LookupReturns(task) /\ IsHost(task)
       /\ \A task \in Alive :
            LookupReturns(task) /\ task.host # host_role
            => (Responds(PERMISSION_DENIED) <=> ~IsHost(task) /\ ~LookupFailed)]_vars

\* C18 witness: a privileged invocation of a member who holds the host role
\* it read is suspended in the lookup, a sync event has since set another host
\* role, which the member does not hold, and the registry has a team.
C18_Witness ==
    /\ teams # Teams_new
    /\ \E task \in Alive :
         /\ task.pc = "has_role"
         /\ IsHost(task)
         /\ host_role # task.host
         /\ ~HasRole(Unwrap(Unwrap(task.inv).member), Unwrap(host_role))

\* C19: the score has no bound.  For every score s and amount d, the adjust
\* of a host that reaches the team (its lookup returned, the registry is
\* usable) leaves the score at exactly s + d: the sum is not wrapped into
\* the range of the machine integer and the addition raises no fault.
C19_UnboundedScore ==
    [][\A task \in Alive :
         /\ LookupReturns(task) /\ ~CreateTask(task) /\ IsHost(task)
         /\ HasAmount(task)
         /\ OriginChannel(task) \in DOMAIN teams
         /\ ~teams_poisoned
         => \/ /\ teams'[OriginChannel(task)].score
                    = teams[OriginChannel(task)].score + AdjustAmount(task)
               /\ panic' = ""
            \/ LookupFailed]_vars

NotFoundText == "Failed to rename team, could not find team"

\* C20: "team rename" and "team recolor" are not gated and do not touch the
\* registry.  Whoever invokes them and whether or not a host role is set,
\* on a channel with a team they go on to the edit of the team's role, and
\* on a channel with no team they respond that the team could not be found
\* and make no edit; neither their arrival nor the return of the edit
\* changes the registry (teams, roles, stored names, scores) or the host role.
C20_RenameRecolorUngated ==
    [][/\ \A i \in RenameInteractions \cup RecolorInteractions :
            Handled(i)
            => /\ teams' = teams /\ host_role' = host_role
               /\ IF Unwrap(i.channel_id) \in DOMAIN teams
                  THEN Enters(Task("edit", {i}, {}, {}))
                  ELSE Responds(NotFoundText)
       /\ \A task \in Alive :
            Leaves(task) /\ task.pc = "edit"
            => /\ teams' = teams /\ host_role' = host_role
               /\ \E next \in BagToSet(tasks') : Enters(next) /\ next.pc = "respond"]_vars

\* The well-formed invocations: the slash commands that follow the schema.
WellFormed == {i \in ValidInteractions : i.kind = "ApplicationCommand"}

\* C21, the locks: no task holds the guard of the registry and the guard of
\* the host role at the same time (so no two tasks can wait for each other).
C21_OneGuardAtATime ==
    \A task \in BagToSet(tasks) : Cardinality(task.held) <= 1

\* C21, the locks under fair scheduling: no task waits for a guard for
\* ever; the tasks that have started always come to their end.
C21_TasksEnd == []<>(tasks = EmptyBag)

\* C21: response liveness, as what every step must do for it.  A well-formed
\* invocation that arrives while the host role is set leaves its task
\* suspended in a platform call or holding the content of its response; the
\* return of the lookup or of the edit to the task of a well-formed
\* invocation leaves it holding the content of its response; the delivery of
\* a response is attempted once, and ends the task.  No step ends such a
\* task with no response.
C21_ResponseReached ==
    [][/\ \A i \in WellFormed :
            Handled(i) /\ host_role # {}
            => panic' = "" /\ \E task \in BagToSet(tasks') : Enters(task)
       /\ \A task \in Alive :
            /\ Leaves(task) /\ task.pc \in {"has_role", "edit"}
            /\ Unwrap(task.inv) \in WellFormed
            => panic' = "" /\ \E next \in BagToSet(tasks') :
                                Enters(next) /\ next.pc = "respond"
       /\ \A task \in Alive :
            Leaves(task) /\ task.pc = "respond" => NoResponse]_vars

\* Invocations of "team" with a subcommand that no arm matches, and of
\* "team score" with a sub-subcommand that no arm matches.
UnknownTeam ==
    {i \in UnknownInteractions :
        Unwrap(i.data).name = "team" /\ Suboption(i).name # "score"}
UnknownScore ==
    {i \in UnknownInteractions :
        Unwrap(i.data).name = "team" /\ Suboption(i).name = "score"}

\* C22: an unknown name at a nested level raises no fault and leaves the
\* registry as it was.  An unknown subcommand of "team" is answered with the
\* literal "Invalid team suboption" and an unknown sub-subcommand of "team
\* score" with the literal "Invalid team->score suboption", whether the host
\* role is set, absent, or its mutex poisoned (it is not read), and whether
\* or not the registry can be locked.
C22_NestedUnknown ==
    [][/\ \A i \in UnknownTeam :
            Handled(i)
            => /\ Responds("Invalid team suboption")
               /\ panic' = "" /\ teams' = teams
               /\ UNCHANGED <<host_role, host_role_poisoned, teams_poisoned>>
       /\ \A i \in UnknownScore :
            Handled(i)
            => /\ Responds("Invalid team->score suboption")
               /\ panic' = "" /\ teams' = teams
               /\ UNCHANGED <<host_role, host_role_poisoned, teams_poisoned>>]_vars

\* C22 witness: both answers are to be delivered, with no host role set and
\* its mutex poisoned by an earlier privileged command.
C22_Witness ==
    /\ UnknownTeam # {} /\ UnknownScore # {}
    /\ BagIn(Task("respond", {}, {}, {"Invalid team suboption"}), tasks)
    /\ BagIn(Task("respond", {}, {}, {"Invalid team->score suboption"}), tasks)
    /\ host_role = {}
    /\ host_role_poisoned

====
